---- MODULE Spec2Model ----
(***************************************************************************)
(* Anime2Sketch/anime2sketch.py: construction of the U-Net generator (the  *)
(* nested UnetSkipConnectionBlock chain, the in-place swap of decoder      *)
(* convolutions for Upsample modules, load_weights) and its forward pass,  *)
(* interpreted layer by layer over tensor shapes and one representative    *)
(* element per tensor (fixed point, One = 1.0).                            *)
(***************************************************************************)
EXTENDS Integers, Sequences, FiniteSets, TLC

VARIABLES
    pc,          \* position in __init__ / forward
    num_downs, ngf, norm_layer, use_dropout, input_nc, output_nc,  \* constructor arguments
    ckpt,        \* the weights file on disk: "absent", "ok", "corrupt", "mismatch"
    theta,       \* the values of the learned parameters as seen by the representative element
    chain,       \* the nested blocks, innermost first; chain[Len(chain)] wraps all others
    i,           \* loop counter of the running for-loop
    base,        \* the replacement loop's cursor: an index of chain, 0 for a non-block object
    err,         \* the exception that ended construction or forward, "none" otherwise
    printed,     \* what print() has written, in order
    loadCalls,   \* number of calls of load_state_dict
    params,      \* where the parameters' values come from: "init" or "checkpoint"
    input,       \* the tensor handed to UnetGenerator.forward
    t,           \* the tensor flowing through the Sequential being run
    alias,       \* TRUE when t is the very tensor object the running block received as x
    frames,      \* the active UnetSkipConnectionBlock.forward calls, innermost call last
    cur,         \* index in chain of the block whose Sequential is running
    ip,          \* position (from 1) of the next layer of that Sequential
    output       \* the value returned by UnetGenerator.forward

args == <<num_downs, ngf, norm_layer, use_dropout, input_nc, output_nc, ckpt, theta>>
build == <<chain, i, base>>
load == <<printed, loadCalls, params>>
fwd == <<input, t, alias, frames, cur, ip, output>>
vars == <<pc, args, build, err, load, fwd>>

-----------------------------------------------------------------------------
(* Bounds of the model *)
MaxDepth == 9
MaxMult == 3

(* Fixed point: One stands for 1.0, Half for 0.5 *)
Half == 5
One == 10

(* range(6) of the replacement loop *)
ReplaceCount == 6

NoneNc == 0   \* input_nc=None

Pow2(e) == IF e <= 0 THEN 1 ELSE 2 ^ e

\* values of ngf (64 is the default) and batch sizes of the input
Ngfs == {1, 64}
Batches == {1, 2}

NormLayers ==
    { nl \in [func : {"InstanceNorm2d", "BatchNorm2d"}, partial : BOOLEAN, affine : BOOLEAN] :
        ~nl.partial => (nl.affine = (nl.func = "BatchNorm2d")) }

Thetas == { [w |-> 1, b |-> 0, mu |-> 0], [w |-> -1, b |-> 3, mu |-> 1] }

-----------------------------------------------------------------------------
(* Layers *)

Layer(kind, inc, outc, bias, inplace) ==
    [kind |-> kind, inc |-> inc, outc |-> outc, bias |-> bias, inplace |-> inplace]

Conv2d(inc, outc, bias) == Layer("Conv2d", inc, outc, bias, FALSE)
ConvTranspose2d(inc, outc, bias) == Layer("ConvTranspose2d", inc, outc, bias, FALSE)
LeakyReLU == Layer("LeakyReLU", 0, 0, FALSE, TRUE)
ReLU == Layer("ReLU", 0, 0, FALSE, TRUE)
Tanh == Layer("Tanh", 0, 0, FALSE, FALSE)
Dropout == Layer("Dropout", 0, 0, FALSE, FALSE)
Norm(nf) == Layer("Norm", nf, nf, FALSE, FALSE)
Submodule == Layer("Submodule", 0, 0, FALSE, FALSE)
Upsample(inc, outc) == Layer("Upsample", inc, outc, TRUE, FALSE)

HasAffine(nl) == nl.affine

\* bias decided by the affine setting instead of the class
UseBiasAffine(nl) == ~nl.affine

UseBias(nl) == IF nl.partial THEN nl.func = "InstanceNorm2d" ELSE nl.func = "InstanceNorm2d"

BlockModel(outer_nc, inner_nc, in_nc, outermost, innermost, nl, dropout) ==
    LET use_bias == UseBias(nl)
        downconv == Conv2d(in_nc, inner_nc, use_bias)
    IN  IF outermost
        THEN <<downconv, Submodule, ReLU, ConvTranspose2d(inner_nc * 2, outer_nc, TRUE), Tanh>>
        ELSE IF innermost
        THEN <<LeakyReLU, downconv, ReLU, ConvTranspose2d(inner_nc, outer_nc, use_bias),
               Norm(outer_nc)>>
        ELSE <<LeakyReLU, downconv, Norm(inner_nc), Submodule, ReLU,
               ConvTranspose2d(inner_nc * 2, outer_nc, use_bias), Norm(outer_nc)>>
             \o (IF dropout THEN <<Dropout>> ELSE <<>>)

UnetSkipConnectionBlock(outer_nc, inner_nc, in_nc, outermost, innermost, nl, dropout) ==
    LET inc == IF in_nc = NoneNc THEN outer_nc ELSE in_nc
    IN  [outer_nc |-> outer_nc, inner_nc |-> inner_nc, input_nc |-> inc,
         outermost |-> outermost, innermost |-> innermost,
         model |-> BlockModel(outer_nc, inner_nc, inc, outermost, innermost, nl, dropout)]

-----------------------------------------------------------------------------
Init ==
    /\ pc = "build_inner"
    /\ num_downs \in 1..MaxDepth
    /\ ngf \in Ngfs
    /\ norm_layer \in NormLayers
    /\ use_dropout \in BOOLEAN
    /\ input_nc = 3
    /\ output_nc = 1
    /\ ckpt \in {"absent", "ok", "corrupt", "mismatch"}
    /\ theta \in Thetas
    /\ chain = <<>>
    /\ i = 0
    /\ base = 0
    /\ err = "none"
    /\ printed = <<>>
    /\ loadCalls = 0
    /\ params = "init"
    /\ input = [n |-> 0, c |-> 0, h |-> 0, w |-> 0, val |-> 0, skipc |-> 0]
    /\ t = [n |-> 0, c |-> 0, h |-> 0, w |-> 0, val |-> 0, skipc |-> 0]
    /\ alias = FALSE
    /\ frames = <<>>
    /\ cur = 0
    /\ ip = 0
    /\ output = [n |-> 0, c |-> 0, h |-> 0, w |-> 0, val |-> 0, skipc |-> 0]

BuildInnermost ==
    /\ pc = "build_inner"
    /\ chain' = <<UnetSkipConnectionBlock(ngf * 8, ngf * 8, NoneNc, FALSE, TRUE, norm_layer, FALSE)>>
    /\ i' = 0
    /\ pc' = "build_mid"
    /\ UNCHANGED <<args, base, err, load, fwd>>

BuildIntermediate ==
    /\ pc = "build_mid"
    /\ i < num_downs - 5
    /\ chain' = Append(chain, UnetSkipConnectionBlock(ngf * 8, ngf * 8, NoneNc, FALSE, FALSE,
                                                     norm_layer, use_dropout))
    /\ i' = i + 1
    /\ UNCHANGED <<pc, args, base, err, load, fwd>>

\* one halving block is missing
ReduceBlocksTwo(nf, nl) ==
    << UnetSkipConnectionBlock(nf * 4, nf * 8, NoneNc, FALSE, FALSE, nl, FALSE),
       UnetSkipConnectionBlock(nf, nf * 2, NoneNc, FALSE, FALSE, nl, FALSE) >>

ReduceBlocks(nf, nl) ==
    << UnetSkipConnectionBlock(nf * 4, nf * 8, NoneNc, FALSE, FALSE, nl, FALSE),
       UnetSkipConnectionBlock(nf * 2, nf * 4, NoneNc, FALSE, FALSE, nl, FALSE),
       UnetSkipConnectionBlock(nf, nf * 2, NoneNc, FALSE, FALSE, nl, FALSE) >>

BuildReduce ==
    /\ pc = "build_mid"
    /\ ~(i < num_downs - 5)
    /\ chain' = chain \o ReduceBlocks(ngf, norm_layer)
    /\ pc' = "build_outer"
    /\ UNCHANGED <<args, i, base, err, load, fwd>>

\* m[k] of an nn.Sequential, k counted from 0
HasItem(m, k) == k + 1 <= Len(m)
Item(m, k) == m[k + 1]

HasChannels(layer) == layer.kind \in {"Conv2d", "ConvTranspose2d"}

\* the cursor is not moved to the nested block
DescendStay(b, k) == b

\* the object reached by blk.model[k] when blk is chain[b]: an index of chain, or 0
Descend(b, k) == IF Item(chain[b].model, k).kind = "Submodule" THEN b - 1 ELSE 0

BuildOutermost ==
    /\ pc = "build_outer"
    /\ chain' = Append(chain, UnetSkipConnectionBlock(output_nc, ngf, input_nc, TRUE, FALSE,
                                                     norm_layer, FALSE))
    /\ base' = IF Item(chain'[Len(chain')].model, 1).kind = "Submodule" THEN Len(chain') - 1 ELSE 0
    /\ i' = 0
    /\ pc' = "replace"
    /\ UNCHANGED <<args, err, load, fwd>>

\* the exception raised by one pass of the replacement loop's body, "none" if it completes
ReplaceError(b) ==
    IF b = 0 THEN "AttributeError"
    ELSE IF ~HasItem(chain[b].model, 5) THEN "IndexError"
    ELSE IF ~HasChannels(Item(chain[b].model, 5)) THEN "AttributeError"
    ELSE IF ~HasItem(chain[b].model, 3) THEN "IndexError"
    ELSE "none"

\* the decoder convolution is left in place
ReplacedNot(blk) == blk

Replaced(blk) ==
    LET old == Item(blk.model, 5)
    IN  [blk EXCEPT !.model = [blk.model EXCEPT ![5 + 1] = Upsample(old.inc, old.outc)]]

ReplaceStep ==
    /\ pc = "replace"
    /\ i < ReplaceCount
    /\ IF ReplaceError(base) # "none"
       THEN /\ pc' = "error"
            /\ err' = ReplaceError(base)
            /\ UNCHANGED <<chain, i, base>>
       ELSE /\ chain' = [chain EXCEPT ![base] = Replaced(chain[base])]
            /\ base' = Descend(base, 3)
            /\ i' = i + 1
            /\ UNCHANGED <<pc, err>>
    /\ UNCHANGED <<args, load, fwd>>

\* the existence check always succeeds
FileExistsAlways(c) == TRUE

\* os.path.exists(checkpoint)
FileExists(c) == c # "absent"

load_weights ==
    /\ pc = "replace"
    /\ ~(i < ReplaceCount)
    /\ IF ~FileExists(ckpt)
       THEN /\ printed' = printed \o <<"Warnning", "not exist">>
            /\ pc' = "ready"
            /\ UNCHANGED <<loadCalls, params, err>>
       ELSE /\ printed' = Append(printed, "Loading weight")
            /\ IF ckpt = "corrupt"
               THEN /\ pc' = "error"
                    /\ err' = "UnpicklingError"
                    /\ UNCHANGED <<loadCalls, params>>
               ELSE /\ loadCalls' = loadCalls + 1
                    /\ IF ckpt = "mismatch"
                       THEN /\ pc' = "error"
                            /\ err' = "RuntimeError"
                            /\ params' = "partial"
                       ELSE /\ pc' = "ready"
                            /\ params' = "checkpoint"
                            /\ UNCHANGED err
    /\ UNCHANGED <<args, build, fwd>>

-----------------------------------------------------------------------------
(* The forward pass *)

Tensor(n, c, h, w, val) == [n |-> n, c |-> c, h |-> h, w |-> w, val |-> val, skipc |-> 0]

Sizes == { m * Pow2(MaxDepth - 1) : m \in 1..MaxMult }
Pixels == {0, One + Half}

\* spatial size after nn.Conv2d / nn.ConvTranspose2d with kernel k, stride s, padding p
ConvOut(h, k, s, p) == ((h + 2 * p - k) \div s) + 1
ConvTOut(h, k, s, p) == (h - 1) * s - 2 * p + k

\* nn.LeakyReLU(0.2): slope 2/10 on the negative side
LeakyReLUVal(v) == IF v >= 0 THEN v ELSE (v * 2) \div 10
ReLUVal(v) == IF v >= 0 THEN v ELSE 0
\* gelu, rounded to the fixed-point grid: x for large x, 0 for very negative x
GELUVal(v) == IF v >= 0 THEN v - (IF v < One THEN v \div 4 ELSE 0) ELSE 0
\* tanh(v / One) * One, rounded to the grid; it saturates at +-One
TanhAbs(a) ==
    IF a <= 4 THEN a
    ELSE IF a <= 6 THEN 5
    ELSE IF a = 7 THEN 6
    ELSE IF a <= 9 THEN 7
    ELSE IF a <= 12 THEN 8
    ELSE IF a <= 18 THEN 9
    ELSE One
TanhVal(v) == IF v >= 0 THEN TanhAbs(v) ELSE -TanhAbs(-v)
\* a convolution as seen by the representative element
ConvVal(v, bias) == theta.w * v + (IF bias THEN theta.b ELSE 0)
NormVal(v) ==
    IF HasAffine(norm_layer) THEN theta.w * (v - theta.mu) + theta.b ELSE v - theta.mu
\* nn.Dropout(0.5) of a module left in training mode: zeroed, or scaled by 1 / (1 - 0.5)
DropoutVal(v, keep) == IF keep THEN 2 * v ELSE 0

\* Upsample.forward
\* Upsample.forward without the 2x interpolation
UpsampleForwardNoUp(layer, x) ==
    LET conv == Tensor(x.n, layer.outc, ConvOut(x.h, 3, 1, 1), ConvOut(x.w, 3, 1, 1),
                       ConvVal(x.val, TRUE))
    IN  Tensor(conv.n, conv.c, conv.h, conv.w, conv.val)

UpsampleForward(layer, x) ==
    LET up == Tensor(x.n, x.c, x.h * 2, x.w * 2, x.val)
        smooth == Tensor(up.n, up.c, ConvOut(up.h + 2, 3, 1, 0), ConvOut(up.w + 2, 3, 1, 0), up.val)
        conv == Tensor(smooth.n, layer.outc, ConvOut(smooth.h, 3, 1, 1), ConvOut(smooth.w, 3, 1, 1),
                       ConvVal(smooth.val, TRUE))
        mlp == ConvVal(GELUVal(ConvVal(conv.val, TRUE)), TRUE)
    IN  Tensor(conv.n, conv.c, conv.h, conv.w, mlp + conv.val)

\* the exception a layer raises on x, "none" if it runs
LayerError(layer, x) ==
    IF layer.kind = "Conv2d"
    THEN IF x.c # layer.inc \/ x.h + 2 < 4 \/ x.w + 2 < 4 THEN "RuntimeError" ELSE "none"
    ELSE IF layer.kind \in {"ConvTranspose2d", "Upsample"}
    THEN IF x.c # layer.inc THEN "RuntimeError" ELSE "none"
    ELSE IF layer.kind = "Norm"
    THEN IF x.c # layer.inc /\ (HasAffine(norm_layer) \/ norm_layer.func = "BatchNorm2d")
         THEN "RuntimeError"
         ELSE IF norm_layer.func = "InstanceNorm2d" /\ x.h * x.w <= 1 THEN "ValueError"
         ELSE IF norm_layer.func = "BatchNorm2d" /\ x.n * x.h * x.w <= 1 THEN "ValueError"
         ELSE "none"
    ELSE "none"

LayerForward(layer, x, keep) ==
    IF layer.kind = "Conv2d"
    THEN Tensor(x.n, layer.outc, ConvOut(x.h, 4, 2, 1), ConvOut(x.w, 4, 2, 1),
                ConvVal(x.val, layer.bias))
    ELSE IF layer.kind = "ConvTranspose2d"
    THEN Tensor(x.n, layer.outc, ConvTOut(x.h, 4, 2, 1), ConvTOut(x.w, 4, 2, 1),
                ConvVal(x.val, layer.bias))
    ELSE IF layer.kind = "Upsample" THEN UpsampleForward(layer, x)
    ELSE IF layer.kind = "Norm" THEN Tensor(x.n, x.c, x.h, x.w, NormVal(x.val))
    ELSE IF layer.kind = "LeakyReLU" THEN Tensor(x.n, x.c, x.h, x.w, LeakyReLUVal(x.val))
    ELSE IF layer.kind = "ReLU" THEN Tensor(x.n, x.c, x.h, x.w, ReLUVal(x.val))
    ELSE IF layer.kind = "Tanh" THEN Tensor(x.n, x.c, x.h, x.w, TanhVal(x.val))
    ELSE IF layer.kind = "Dropout" THEN Tensor(x.n, x.c, x.h, x.w, DropoutVal(x.val, keep))
    ELSE x

\* the operands of the concatenation swapped
CatSwapped(a, b) == [n |-> b.n, c |-> b.c + a.c, h |-> b.h, w |-> b.w, val |-> b.val, skipc |-> b.c]

\* torch.cat([a, b], 1); a's content is read when cat runs
CatError(a, b) == IF a.n # b.n \/ a.h # b.h \/ a.w # b.w THEN "RuntimeError" ELSE "none"
Cat(a, b) == [n |-> a.n, c |-> a.c + b.c, h |-> a.h, w |-> a.w, val |-> a.val, skipc |-> a.c]

RescaleIn(x) == Tensor(x.n, x.c, x.h, x.w, (x.val - Half) * 2)
\* the output rescale without the division
RescaleOutNoHalve(y) == Tensor(y.n, y.c, y.h, y.w, y.val + One)
RescaleOut(y) == Tensor(y.n, y.c, y.h, y.w, (y.val + One) \div 2)

Top(s) == s[Len(s)]
Pop(s) == SubSeq(s, 1, Len(s) - 1)

\* UnetGenerator.forward up to the call of the outermost block
ForwardStart ==
    /\ pc = "ready"
    /\ \E n \in Batches, c \in {1, 3}, h \in Sizes, w \in Sizes, pix \in Pixels :
          /\ input' = Tensor(n, c, h, w, pix)
          /\ t' = RescaleIn(input')
          /\ frames' = << [x |-> t', xval |-> t'.val, retip |-> 0] >>
    /\ alias' = TRUE
    /\ cur' = Len(chain)
    /\ ip' = 1
    /\ pc' = "forward"
    /\ UNCHANGED <<args, build, err, load, output>>

\* nn.Sequential.forward from layer k on, up to the next nested block or the end:
\* x is the running tensor, al tells whether it is still the tensor object the block
\* received, xv is the content of that object
RECURSIVE Sequential(_, _, _, _, _, _)
Sequential(layers, k, x, al, xv, keep) ==
    IF k > Len(layers) \/ layers[k].kind = "Submodule"
    THEN [t |-> x, alias |-> al, xval |-> xv, ip |-> k, err |-> "none"]
    ELSE IF LayerError(layers[k], x) # "none"
    THEN [t |-> x, alias |-> al, xval |-> xv, ip |-> k, err |-> LayerError(layers[k], x)]
    ELSE LET y == LayerForward(layers[k], x, keep)
             inplace == layers[k].inplace /\ al
         IN  Sequential(layers, k + 1, y, inplace, IF inplace THEN y.val ELSE xv, keep)

HasDropout(layers) == \E k \in DOMAIN layers : layers[k].kind = "Dropout"

\* the layers of the running nn.Sequential up to its nested block, or after it to the end
ApplyLayers ==
    /\ pc = "forward"
    /\ ip <= Len(chain[cur].model)
    /\ chain[cur].model[ip].kind # "Submodule"
    /\ \E keep \in (IF HasDropout(chain[cur].model) THEN BOOLEAN ELSE {TRUE}) :
          LET r == Sequential(chain[cur].model, ip, t, alias, Top(frames).xval, keep)
          IN  /\ t' = r.t
              /\ alias' = r.alias
              /\ frames' = [frames EXCEPT ![Len(frames)].xval = r.xval]
              /\ ip' = r.ip
              /\ err' = r.err
              /\ pc' = IF r.err # "none" THEN "fwd_error" ELSE pc
    /\ UNCHANGED <<args, build, load, input, cur, output>>

\* the nested block's forward is called with the current tensor as its x
EnterSubmodule ==
    /\ pc = "forward"
    /\ ip <= Len(chain[cur].model)
    /\ chain[cur].model[ip].kind = "Submodule"
    /\ frames' = Append(frames, [x |-> t, xval |-> t.val, retip |-> ip + 1])
    /\ alias' = TRUE
    /\ cur' = cur - 1
    /\ ip' = 1
    /\ UNCHANGED <<pc, args, build, err, load, input, t, output>>

\* the skip operand as torch.cat reads it: x's shape, and its storage's content now
SkipOperand(f) == [f.x EXCEPT !.val = f.xval]

\* UnetSkipConnectionBlock.forward of a block that is not outermost returns
ReturnBlock ==
    /\ pc = "forward"
    /\ ip > Len(chain[cur].model)
    /\ ~chain[cur].outermost
    /\ LET f == Top(frames)
       IN  IF CatError(SkipOperand(f), t) # "none"
           THEN /\ pc' = "fwd_error"
                /\ err' = CatError(SkipOperand(f), t)
                /\ UNCHANGED <<t, alias, frames, cur, ip>>
           ELSE /\ t' = Cat(SkipOperand(f), t)
                /\ alias' = FALSE
                /\ frames' = Pop(frames)
                /\ cur' = cur + 1
                /\ ip' = f.retip
                /\ UNCHANGED <<pc, err>>
    /\ UNCHANGED <<args, build, load, input, output>>

\* the outermost block returns its processed path; UnetGenerator.forward rescales it
ForwardFinish ==
    /\ pc = "forward"
    /\ ip > Len(chain[cur].model)
    /\ chain[cur].outermost
    /\ output' = RescaleOut(t)
    /\ frames' = Pop(frames)
    /\ pc' = "fwd_done"
    /\ UNCHANGED <<args, build, err, load, input, t, alias, cur, ip>>

Next ==
    \/ BuildInnermost
    \/ BuildIntermediate
    \/ BuildReduce
    \/ BuildOutermost
    \/ ReplaceStep
    \/ load_weights
    \/ ForwardStart
    \/ ApplyLayers
    \/ EnterSubmodule
    \/ ReturnBlock
    \/ ForwardFinish


Spec == Init /\ [][Next]_vars

-----------------------------------------------------------------------------
(* Properties *)

Building == pc \in {"build_inner", "build_mid", "build_outer"}
ConstructionEnded == pc \notin {"build_inner", "build_mid", "build_outer", "replace"}
Constructed == pc \in {"ready", "forward", "fwd_done", "fwd_error"}

\* chain index of the block at nesting level L, the outermost block being level 1
AtLevel(L) == Len(chain) - L + 1
Plain(b) == ~chain[b].innermost /\ ~chain[b].outermost
\* position (from 0) of the decoder convolution in a block's Sequential
DecoderPos(blk) == IF blk.outermost \/ blk.innermost THEN 3 ELSE 5
Decoder(b) == Item(chain[b].model, DecoderPos(chain[b]))
Divisible(x, d) == x.h % Pow2(d) = 0 /\ x.w % Pow2(d) = 0

\* C1: a generator built with input_nc = 3, output_nc = 1 and depth num_downs, run on an
\* input (N, 3, H, W) with H and W divisible by 2^num_downs, raises no error in any layer
\* or concatenation, and what it returns has shape (N, 1, H, W).
C1_ForwardShape ==
    (/\ pc \in {"forward", "fwd_done", "fwd_error"}
     /\ input_nc = 3 /\ output_nc = 1
     /\ input.c = 3 /\ Divisible(input, num_downs))
    => /\ pc # "fwd_error"
       /\ pc = "fwd_done" =>
            /\ output.n = input.n /\ output.c = 1
            /\ output.h = input.h /\ output.w = input.w

C1_Witness ==
    /\ pc = "fwd_done"
    /\ num_downs = 8 /\ use_dropout
    /\ input.c = 3 /\ Divisible(input, num_downs) /\ input.h # input.w /\ input.n = 2

\* what one pass of the replacement loop needs of the block it visits
StepFinds(b) ==
    /\ b \in DOMAIN chain
    /\ HasItem(chain[b].model, 5)
    /\ Item(chain[b].model, 5).kind = "ConvTranspose2d"
    /\ Item(chain[b].model, 3).kind = "Submodule"

ReplacementFails == pc = "error" /\ err \in {"IndexError", "AttributeError"}

WarningPrinted == \E k \in DOMAIN printed : printed[k] = "Warnning"

LoadDiscipline ==
    /\ loadCalls <= 1
    /\ loadCalls = 1 => ckpt # "absent"
    /\ (Constructed /\ ckpt # "absent") => loadCalls = 1

MissingFileOutcome ==
    /\ pc # "error" /\ err = "none"
    /\ WarningPrinted
    /\ loadCalls = 0
    /\ params = "init"

C4_OutputRange == pc = "fwd_done" => (0 <= output.val /\ output.val <= One)

C4_Witness == pc = "fwd_done" /\ input.val > One /\ output.val = One

\* the chain the recursive construction builds for depth d: one innermost block, d - 5
\* constant-width blocks, three halving blocks, one outermost block
ChainShape(d) ==
    /\ Len(chain) = d
    /\ chain[1].innermost /\ ~chain[1].outermost
    /\ \A b \in 2..(d - 4) :
          Plain(b) /\ chain[b].outer_nc = ngf * 8 /\ chain[b].inner_nc = ngf * 8
    /\ \A k \in 1..3 :
          LET b == d - k
          IN  Plain(b) /\ chain[b].outer_nc = ngf * Pow2(k - 1)
                       /\ chain[b].inner_nc = 2 * chain[b].outer_nc
    /\ chain[d].outermost /\ ~chain[d].innermost
    /\ Cardinality({b \in DOMAIN chain : Plain(b) /\ chain[b].outer_nc = chain[b].inner_nc}) = d - 5

\* number of stride-2 convolutions between the input and the bottleneck
DownsamplingStages ==
    Cardinality({b \in DOMAIN chain :
                   \E k \in DOMAIN chain[b].model : chain[b].model[k].kind = "Conv2d"})

C6_Original ==
    Constructed =>
        \A L \in 1..Len(chain) :
            Decoder(AtLevel(L)).kind = (IF L <= ReplaceCount THEN "Upsample" ELSE "ConvTranspose2d")

\* C6 (amended): after construction the decoders of levels 2..7 are Upsample modules; the
\* outermost block's decoder and every decoder deeper than level 7 are still the
\* transposed convolutions they were built with.
C6_Amended ==
    Constructed =>
        \A L \in 1..Len(chain) :
            LET blk == chain[AtLevel(L)]
            IN  Decoder(AtLevel(L)) =
                    IF 2 <= L /\ L <= ReplaceCount + 1
                    THEN Upsample(blk.inner_nc * 2, blk.outer_nc)
                    ELSE BlockModel(blk.outer_nc, blk.inner_nc, blk.input_nc, blk.outermost,
                                    blk.innermost, norm_layer, FALSE)[DecoderPos(blk) + 1]

C6_Witness == pc = "ready" /\ num_downs = 9 /\ Decoder(AtLevel(8)).kind = "ConvTranspose2d"

\* a step in which a block that is not outermost returns its concatenation
Concatenates == pc = "forward" /\ pc' = "forward" /\ Len(frames') < Len(frames)

\* C7: when a block that is not outermost concatenates, the first operand holds the
\* values the block received as x.
C7_RawSkip == [][Concatenates => t'.val = Top(frames).x.val]_vars

\* C8 (as claimed): every block that is neither innermost nor outermost has
\* inner_nc * 2 = outer_nc.
C8_Original == \A b \in DOMAIN chain : Plain(b) => chain[b].inner_nc * 2 = chain[b].outer_nc

\* C8 (amended): every such block has inner_nc = outer_nc (constant width) or
\* inner_nc = outer_nc * 2 (halving), and its decoder takes inner_nc * 2 input channels,
\* the channel count its nested block returns.
C8_Amended ==
    \A b \in DOMAIN chain :
        Plain(b) =>
            /\ chain[b].inner_nc = chain[b].outer_nc \/ chain[b].inner_nc = chain[b].outer_nc * 2
            /\ Decoder(b).inc = chain[b].inner_nc * 2
            /\ Decoder(b).inc = chain[b - 1].input_nc + chain[b - 1].outer_nc

C8_Witness == pc = "ready" /\ num_downs = 9 /\ ngf = 64

IsConv(layer) == layer.kind \in {"Conv2d", "ConvTranspose2d"}

\* C9 (as claimed): in every block, a convolution or transposed convolution has a bias
\* only when the normalization has no learned affine parameters.
C9_Original ==
    \A b \in DOMAIN chain : \A k \in DOMAIN chain[b].model :
        IsConv(chain[b].model[k]) => (chain[b].model[k].bias => ~HasAffine(norm_layer))

\* C9 (amended): the outermost block's transposed convolution always has a bias; every
\* other convolution of a block has one exactly when the normalization layer is
\* InstanceNorm2d (given directly or through functools.partial), whatever its affine setting.
C9_Amended ==
    \A b \in DOMAIN chain : \A k \in DOMAIN chain[b].model :
        LET layer == chain[b].model[k]
        IN  IsConv(layer) =>
                layer.bias = IF chain[b].outermost /\ layer.kind = "ConvTranspose2d"
                             THEN TRUE
                             ELSE norm_layer.func = "InstanceNorm2d"

C9_Witness ==
    /\ pc = "replace" /\ i = 0
    /\ norm_layer.func = "InstanceNorm2d" /\ HasAffine(norm_layer)
    /\ chain[1].model[2].bias

\* C10: a block that is not outermost returns its input's channels followed by the
\* outer_nc channels of its processed path; the outermost block returns the processed
\* path alone.
C10_Concat ==
    [][/\ Concatenates =>
            LET f == Top(frames)
            IN  /\ t'.c = f.x.c + chain[cur].outer_nc
                /\ t'.skipc = f.x.c
                /\ t'.val = f.xval
       /\ (pc = "forward" /\ pc' = "fwd_done") =>
            /\ output'.c = chain[cur].outer_nc
            /\ t.skipc = 0]_vars

C10_Witness == pc = "fwd_done" /\ Len(chain) = 9 /\ use_dropout
====
